---- MODULE Spec2Model ----
(***************************************************************************)
(* Model of the publisher dispatcher of log-courier                        *)
(* (src/lc-lib/publisher/publisher.go): the Run loop, sendPayload,         *)
(* processAck, processPong, failEndpoint, registerReady, addReady,         *)
(* setTimer, registerTimeout, timeoutPending and timeoutKeepalive.         *)
(*                                                                         *)
(* Endpoint and PendingPayload live in other files of the package; their   *)
(* operations (NumPending, SendPayload, ProcessAck, ProcessPong, SendPing, *)
(* IsPinging, NewPendingPayload, HasAck, Complete, Rollup) are modelled    *)
(* from their contracts.                                                   *)
(***************************************************************************)
EXTENDS Integers, Sequences, FiniteSets, TLC

(* ---------------------------- bounds ---------------------------------- *)
NumEndpoints == 2
MaxSpools == 1
MaxSpoolsLoad == 5
MaxSpoolsSaturate == 8
MaxSpoolsRefill == 6
MaxInvalid == 1
MaxEvents == 2
MaxTicks == 2
MaxTicksKeepalive == 3
TickStep == 10
NetworkTimeout == 15

(* ------------------------ program constants --------------------------- *)
keepalive_timeout == 900
FullThreshold == 4

Nil == 0
NoFunc == "nil"
Stopped == -1
Endpoints == 1..NumEndpoints
NoSpool == [id |-> 0, len |-> 0]

VARIABLES
    pub,        \* the Publisher struct's dispatcher fields
    eps,        \* the Endpoint structs, by endpoint
    pays,       \* the live PendingPayload structs, by payload id
    timer,      \* timeoutTimer: when it is due, and whether a tick sits in C
    now,        \* time.Now()
    pc,         \* where Run is: "run", "exited" or "panic"
    out,        \* what the last handled event called on its collaborators
    hist        \* counters of the run so far

vars == <<pub, eps, pays, timer, now, pc, out, hist>>

EmptyOut == [ev |-> <<"none">>, reg |-> <<>>, fail |-> <<>>, sent |-> <<>>,
             ping |-> <<>>, fired |-> <<>>]

(* The state a handler works on, as one record. *)
S(ev) == [p |-> pub, e |-> eps, pay |-> pays, timer |-> timer, now |-> now,
          out |-> [EmptyOut EXCEPT !.ev = ev], hist |-> hist, panicked |-> FALSE]

(* ------------------- PendingPayload (contract) ------------------------ *)
HasAck(s, id) == s.pay[id].ackCount > 0

Complete(s, id) == s.pay[id].ackCount = s.pay[id].events

(* Rollup hands out the events acked since the last Rollup and resets the window. *)
Rollup(s, id) ==
    [s EXCEPT !.out.reg = Append(@, <<"Add", id, s.pay[id].rolled, s.pay[id].ackCount>>),
              !.pay[id].rolled = s.pay[id].ackCount,
              !.hist.lastAdd = id]

(* ----------------------- Endpoint (contract) -------------------------- *)
NumPending(s, ep) == Len(s.e[ep].pending)

IsPinging(s, ep) == s.e[ep].pinging

EndpointSendPayload(s, ep, id) ==
    [s EXCEPT !.e[ep].pending = Append(@, id),
              !.out.sent = Append(@, <<ep, Len(s.e[ep].pending), id>>)]

(* The ack names the oldest pending payload of the endpoint (responses of one *)
(* connection are FIFO) and a sequence not below its watermark.               *)
EndpointProcessAck(s, ep, sequence) ==
    LET id == Head(s.e[ep].pending)
        first == s.pay[id].ackCount = 0
        s1 == [s EXCEPT !.pay[id].ackCount = IF sequence > @ THEN sequence ELSE @]
        s2 == IF Complete(s1, id) THEN [s1 EXCEPT !.e[ep].pending = Tail(@)] ELSE s1
    IN  [s |-> s2, payload |-> id, firstAck |-> first]

EndpointSendPing(s, ep) ==
    [s EXCEPT !.e[ep].pinging = TRUE, !.out.ping = Append(@, ep)]

(* ------------------------- failEndpoint ------------------------------- *)
failEndpoint(s, ep, err) == [s EXCEPT !.out.fail = Append(@, <<ep, err>>)]

(* --------------------- setTimer / registerTimeout --------------------- *)
setTimer_mut(s) == s

setTimer(s) == [s EXCEPT !.timer.due = s.e[s.p.timeoutHead].TimeoutDue]

unlinkTimeout_mut(s, ep) == s

unlinkTimeout(s, ep) ==
    LET prev == s.e[ep].PrevTimeout
        next == s.e[ep].NextTimeout
        a == IF prev = Nil THEN [s EXCEPT !.p.timeoutHead = next]
                           ELSE [s EXCEPT !.e[prev].NextTimeout = next]
    IN  IF next # Nil THEN [a EXCEPT !.e[next].PrevTimeout = prev] ELSE a

RECURSIVE timeoutWalk(_, _, _, _)
timeoutWalk(s, prev, next, due) ==
    IF next = Nil \/ s.e[next].TimeoutDue > due
    THEN <<prev, next>>
    ELSE timeoutWalk(s, next, s.e[next].NextTimeout, due)

registerTimeout(s, ep, timeoutDue, timeoutFunc) ==
    LET had == s.e[ep].TimeoutFunc # NoFunc
        resetTimer == had /\ s.e[ep].PrevTimeout = Nil
        between(s2, prev, next) ==
            LET a == [s2 EXCEPT !.e[prev].NextTimeout = ep,
                                !.e[ep].PrevTimeout = prev,
                                !.e[ep].NextTimeout = next]
                b == IF next # Nil THEN [a EXCEPT !.e[next].PrevTimeout = ep] ELSE a
            IN  IF resetTimer THEN setTimer(b) ELSE b
        after(s2, w) == between(s2, w[1], w[2])
        insert(s2, next) ==
            IF next = Nil \/ s2.e[next].TimeoutDue > timeoutDue
            THEN LET a == [s2 EXCEPT !.p.timeoutHead = ep,
                                     !.e[ep].PrevTimeout = Nil,
                                     !.e[ep].NextTimeout = next]
                 IN  setTimer(IF next # Nil THEN [a EXCEPT !.e[next].PrevTimeout = ep] ELSE a)
            ELSE after(s2, timeoutWalk(s2, next, s2.e[next].NextTimeout, timeoutDue))
        assign(s1) ==
            insert([s1 EXCEPT !.e[ep].TimeoutFunc = timeoutFunc, !.e[ep].TimeoutDue = timeoutDue],
                   s1.p.timeoutHead)
    IN  assign(IF had THEN unlinkTimeout(s, ep) ELSE s)

(* ---------------------------- sendPayload ----------------------------- *)
NewPendingPayloadFails(spool) == spool.len = 0

enqueuePayload(s, id) ==
    LET a == IF s.p.firstPayload = Nil
             THEN [s EXCEPT !.p.firstPayload = id]
             ELSE [s EXCEPT !.pay[s.p.lastPayload].nextPayload = id]
    IN  [a EXCEPT !.p.lastPayload = id]

countPayload_mut(s) == s

countPayload(s) == [s EXCEPT !.p.numPayloads = @ + 1]

sendPayload(s, ep, spool, sendErr) ==
    LET report(s4) == IF sendErr THEN failEndpoint(s4, ep, "ErrSend") ELSE s4
        send(s1, id) ==
            LET s2 == [s1 EXCEPT !.hist.created = id,
                                 !.pay = (id :> [spool |-> spool.id, events |-> spool.len,
                                                 ackCount |-> 0, rolled |-> 0,
                                                 nextPayload |-> Nil]) @@ @]
            IN  report(EndpointSendPayload(countPayload(enqueuePayload(s2, id)), ep, id))
        create(s1) == IF NewPendingPayloadFails(spool) THEN s1
                      ELSE send(s1, s1.hist.created + 1)
    IN  create(IF NumPending(s, ep) = 0
               THEN registerTimeout(s, ep, s.now + NetworkTimeout, "timeoutPending")
               ELSE s)

(* ------------------------ addReady / registerReady -------------------- *)
RECURSIVE readyWalk(_, _, _, _)
readyWalk(s, prev, next, n) ==
    IF next = Nil \/ NumPending(s, next) > n
    THEN <<prev, next>>
    ELSE readyWalk(s, next, s.e[next].NextReady, n)

addReady(s, ep) ==
    LET s1 == [s EXCEPT !.e[ep].Ready = TRUE]
        next == s1.p.readyHead
    IN  IF next = Nil \/ NumPending(s1, next) > NumPending(s1, ep)
        THEN [s1 EXCEPT !.e[ep].NextReady = s1.p.readyHead, !.p.readyHead = ep]
        ELSE LET w == readyWalk(s1, next, s1.e[next].NextReady, NumPending(s1, ep))
                 a == [s1 EXCEPT !.e[w[1]].NextReady = ep]
             IN  [a EXCEPT !.e[ep].NextReady = w[2]]

IsFull_mut(s, ep) == NumPending(s, ep) > FullThreshold

IsFull(s, ep) == NumPending(s, ep) >= FullThreshold

linkFull(s, ep) ==
    LET a == [s EXCEPT !.e[ep].Full = TRUE, !.e[ep].PrevFull = Nil,
                       !.e[ep].NextFull = s.p.fullHead]
        b == IF s.p.fullHead # Nil THEN [a EXCEPT !.e[s.p.fullHead].PrevFull = ep] ELSE a
    IN  [b EXCEPT !.p.fullHead = ep]

sendParked_mut(s, ep, sendErr) ==
    LET a == sendPayload(s, ep, s.p.nextSpool, sendErr)
    IN  [a EXCEPT !.p.ifSpoolChan = TRUE]

sendParked(s, ep, sendErr) ==
    LET a == sendPayload(s, ep, s.p.nextSpool, sendErr)
    IN  [a EXCEPT !.p.nextSpool = NoSpool, !.p.ifSpoolChan = TRUE]

registerReady(s, ep, sendErr) ==
    IF s.e[ep].Ready THEN s
    ELSE IF IsFull(s, ep)
         THEN IF s.e[ep].Full THEN s ELSE linkFull(s, ep)
         ELSE IF s.p.nextSpool # NoSpool
              THEN sendParked(s, ep, sendErr)
              ELSE LET keepalive(a) ==
                           IF a.e[ep].TimeoutFunc = NoFunc
                           THEN registerTimeout(a, ep, a.now + keepalive_timeout,
                                                "timeoutKeepalive")
                           ELSE a
                   IN  keepalive(addReady(s, ep))

(* ----------------------------- processAck ----------------------------- *)
AckIsForFirst_mut(s, id) == TRUE

AckIsForFirst(s, id) == id = s.p.firstPayload

advanceFirst(s, id, outOfSync) ==
    LET next == s.pay[id].nextPayload
    IN  [s EXCEPT !.p.firstPayload = next,
                  !.p.outOfSync = outOfSync,
                  !.p.numPayloads = @ - 1,
                  !.hist.advanced = @ + 1,
                  !.pay = [i \in (DOMAIN s.pay) \ {id} |-> s.pay[i]]]

StopAtPartial(s, payload) == ~Complete(s, payload)

RECURSIVE ackLoop(_, _, _)
ackLoop(s, payload, outOfSync) ==
    LET advance(s2, next) == IF next = Nil THEN s2 ELSE ackLoop(s2, next, outOfSync - 1)
        rolled(s1) == IF StopAtPartial(s1, payload) THEN s1
                      ELSE advance(advanceFirst(s1, payload, outOfSync - 1),
                                   s1.pay[payload].nextPayload)
    IN  IF ~HasAck(s, payload) THEN s ELSE rolled(Rollup(s, payload))

registrarSend_mut(s) == s

registrarSend(s) == [s EXCEPT !.out.reg = Append(@, <<"Send">>)]

unlinkFull(s, ep) ==
    LET a == IF s.e[ep].PrevFull = Nil
             THEN [s EXCEPT !.p.fullHead = s.e[ep].NextFull]
             ELSE [s EXCEPT !.e[ep].PrevFull = s.e[ep].NextFull]
    IN  IF a.e[ep].NextFull # Nil
        THEN [a EXCEPT !.e[a.e[ep].NextFull].PrevFull = a.e[ep].PrevFull]
        ELSE a

NoLongerFull(s, ep) == s.e[ep].Full /\ NumPending(s, ep) < FullThreshold

processAck(s, ep, sequence, sendErr) ==
    LET reoffer(s3) ==
            IF NoLongerFull(s3, ep) THEN registerReady(unlinkFull(s3, ep), ep, sendErr) ELSE s3
        rearm(s2) ==
            reoffer(IF NumPending(s2, ep) # 0
                    THEN registerTimeout(s2, ep, s2.now + NetworkTimeout, "timeoutPending")
                    ELSE registerTimeout(s2, ep, s2.now + keepalive_timeout,
                                         "timeoutKeepalive"))
        acked(s1, payload, firstAck) ==
            rearm(IF AckIsForFirst(s1, payload)
                  THEN registrarSend(ackLoop(s1, payload, s1.p.outOfSync + 1))
                  ELSE IF firstAck THEN [s1 EXCEPT !.p.outOfSync = @ + 1] ELSE s1)
        response(r) == acked(r.s, r.payload, r.firstAck)
    IN  response(EndpointProcessAck(s, ep, sequence))

(* ----------------------------- processPong ---------------------------- *)
processPong(s, ep) ==
    IF ~IsPinging(s, ep) THEN failEndpoint(s, ep, "ErrUnexpectedPong")
    ELSE LET s1 == [s EXCEPT !.e[ep].pinging = FALSE]
         IN  IF NumPending(s1, ep) = 0
             THEN registerTimeout(s1, ep, s1.now + NetworkTimeout, "timeoutKeepalive")
             ELSE s1

(* ------------------ timeoutPending / timeoutKeepalive ----------------- *)
timeoutPending(s, ep) ==
    IF IsPinging(s, ep) THEN failEndpoint(s, ep, "ErrNetworkPing")
                        ELSE failEndpoint(s, ep, "ErrNetworkTimeout")

timeoutKeepalive(s, ep, pingErr) ==
    LET ping(s1) == IF pingErr THEN failEndpoint(s1, ep, "ErrSend")
                               ELSE EndpointSendPing(s1, ep)
    IN  ping(registerTimeout(s, ep, s.now + NetworkTimeout, "timeoutPending"))

(* ------------------------ Run: the timer case ------------------------- *)
RECURSIVE timerLoop(_, _)
timerLoop(s, pingErr) ==
    LET endpoint == s.p.timeoutHead
        callback == s.e[endpoint].TimeoutFunc
        s1 == [s EXCEPT !.p.timeoutHead = s.e[endpoint].NextTimeout,
                        !.e[endpoint].TimeoutFunc = NoFunc,
                        !.out.fired = Append(@, <<endpoint, callback, s.e[endpoint].TimeoutDue>>)]
        again(s2) ==
            IF s2.panicked \/ s2.p.timeoutHead = Nil
               \/ s2.e[s2.p.timeoutHead].TimeoutDue > s2.now
            THEN s2
            ELSE timerLoop(s2, pingErr)
    IN  again(IF callback = "timeoutPending" THEN timeoutPending(s1, endpoint)
              ELSE IF callback = "timeoutKeepalive"
                   THEN timeoutKeepalive(s1, endpoint, pingErr)
                   ELSE [s1 EXCEPT !.panicked = TRUE])

onTimer(s, pingErr) ==
    IF s.p.timeoutHead = Nil THEN [s EXCEPT !.panicked = TRUE]
    ELSE LET rearm(s1) ==
                 IF s1.panicked \/ s1.p.timeoutHead = Nil THEN s1
                 ELSE setTimer([s1 EXCEPT !.e[s1.p.timeoutHead].PrevTimeout = Nil])
         IN  rearm(timerLoop(s, pingErr))

(* ------------------------ Run: the spool case ------------------------- *)
parkSpool_mut(s, spool) == [s EXCEPT !.p.nextSpool = spool]

parkSpool(s, spool) == [s EXCEPT !.p.nextSpool = spool, !.p.ifSpoolChan = FALSE]

onSpool(s, spool, sendErr) ==
    IF s.p.readyHead # Nil
    THEN LET ep == s.p.readyHead
             pop(b) == [b EXCEPT !.p.readyHead = b.e[b.p.readyHead].NextReady]
         IN  pop(sendPayload([s EXCEPT !.e[ep].Ready = FALSE], ep, spool, sendErr))
    ELSE parkSpool(s, spool)

(* ----------------------- Run: the shutdown case ----------------------- *)
ExitOnShutdown(s) == s.p.numPayloads = 0

ExitAfterAck_mut(s) == s.p.numPayloads = 0

ExitAfterAck(s) == s.p.shuttingDown /\ s.p.numPayloads = 0

onShutdown(s) ==
    [s EXCEPT !.p.onShutdown = FALSE, !.p.ifSpoolChan = FALSE, !.p.shuttingDown = TRUE]

(* ------------------------------ actions ------------------------------- *)
Commit(s, exit) ==
    /\ pub' = s.p
    /\ eps' = s.e
    /\ pays' = s.pay
    /\ timer' = s.timer
    /\ out' = s.out
    /\ hist' = s.hist
    /\ pc' = IF s.panicked THEN "panic" ELSE IF exit THEN "exited" ELSE "run"
    /\ now' = now

ReadyEventWith(errs) ==
    /\ pc = "run"
    /\ \E ep \in Endpoints, sendErr \in errs :
          Commit(registerReady(S(<<"ready", ep>>), ep, sendErr), FALSE)

ReadyEvent == ReadyEventWith(BOOLEAN)

SpoolEventWith(limit, lens, errs) ==
    /\ pc = "run"
    /\ pub.ifSpoolChan
    /\ hist.spools < limit
    /\ \E len \in lens, sendErr \in errs :
          /\ len = 0 => hist.invalid < MaxInvalid
          /\ LET spool == [id |-> hist.spools + 1, len |-> len]
                 s == S(<<"spool", spool.id>>)
                 h == [s EXCEPT !.hist.spools = spool.id,
                                !.hist.invalid = IF len = 0 THEN @ + 1 ELSE @]
             IN  Commit(onSpool(h, spool, sendErr), FALSE)

SpoolEvent == SpoolEventWith(MaxSpools, {0, MaxEvents}, BOOLEAN)

AckEventWith(from, errs, partial) ==
    /\ pc = "run"
    /\ \E ep \in from, sendErr \in errs :
          /\ eps[ep].pending # <<>>
          /\ LET id == Head(eps[ep].pending)
             IN  \E sequence \in (IF partial THEN 1..pays[id].events ELSE {pays[id].events}) :
                    /\ sequence >= pays[id].ackCount
                    /\ LET handled(s) == Commit(s, ExitAfterAck(s))
                       IN  handled(processAck(S(<<"ack", ep, id>>), ep, sequence, sendErr))

AckEvent == AckEventWith(Endpoints, BOOLEAN, TRUE)

PongEvent ==
    /\ pc = "run"
    /\ \E ep \in Endpoints : Commit(processPong(S(<<"pong", ep>>), ep), FALSE)

UnknownResponseEvent ==
    /\ pc = "run"
    /\ \E ep \in Endpoints :
          Commit(failEndpoint(S(<<"unknown", ep>>), ep, "ErrBugAssertion"), FALSE)

FailEvent ==
    /\ pc = "run"
    /\ \E ep \in Endpoints :
          Commit(failEndpoint(S(<<"fail", ep>>), ep, "ErrTransport"), FALSE)

TimeoutEvent ==
    /\ pc = "run"
    /\ timer.C
    /\ \E pingErr \in BOOLEAN :
          LET s == S(<<"timer">>)
          IN  Commit(onTimer([s EXCEPT !.timer.C = FALSE], pingErr), FALSE)

StatsEvent ==
    /\ pc = "run"
    /\ Commit(S(<<"stats">>), FALSE)

ShutdownEvent ==
    /\ pc = "run"
    /\ pub.onShutdown
    /\ LET s == S(<<"shutdown">>)
       IN  IF ExitOnShutdown(s) THEN Commit(s, TRUE) ELSE Commit(onShutdown(s), FALSE)

(* The runtime fires timeoutTimer: a tick is put in its channel (capacity 1). *)
TimerFire ==
    /\ pc = "run"
    /\ timer.due # Stopped
    /\ now >= timer.due
    /\ timer' = [due |-> Stopped, C |-> TRUE]
    /\ UNCHANGED <<pub, eps, pays, now, pc, out, hist>>

TickWith(dts, limit) ==
    /\ pc = "run"
    /\ hist.ticks < limit
    /\ \E dt \in dts : now' = now + dt
    /\ hist' = [hist EXCEPT !.ticks = @ + 1]
    /\ UNCHANGED <<pub, eps, pays, timer, pc, out>>

Tick == TickWith({NetworkTimeout, keepalive_timeout}, MaxTicks)

(* ------------------------ Run: after the loop ------------------------- *)
(* The calls Run makes once it has left the loop, one step each; the calls   *)
(* made so far are kept in hist.teardown. None of them emits to the          *)
(* registrar or to an endpoint, so the step's output is empty.               *)
TeardownStep(n, call) ==
    /\ pc = "exited"
    /\ Len(hist.teardown) = n
    /\ hist' = [hist EXCEPT !.teardown = Append(@, call)]
    /\ out' = [EmptyOut EXCEPT !.ev = <<"teardown">>]
    /\ UNCHANGED <<pub, eps, pays, timer, now, pc>>

SinkShutdown == TeardownStep(0, "Shutdown")

SinkWait == TeardownStep(1, "Wait")

RegistrarClose_mut == TeardownStep(2, "Done")

RegistrarClose == TeardownStep(2, "Close")

Done == TeardownStep(3, "Done")

Teardown == SinkShutdown \/ SinkWait \/ RegistrarClose \/ Done

(* --------------------------- specification ---------------------------- *)
InitEndpoint ==
    [Ready |-> FALSE, Full |-> FALSE, NextReady |-> Nil, NextFull |-> Nil, PrevFull |-> Nil,
     TimeoutFunc |-> NoFunc, TimeoutDue |-> 0, NextTimeout |-> Nil, PrevTimeout |-> Nil,
     pending |-> <<>>, pinging |-> FALSE]

Init ==
    /\ pub = [firstPayload |-> Nil, lastPayload |-> Nil, numPayloads |-> 0, outOfSync |-> 0,
              shuttingDown |-> FALSE, timeoutHead |-> Nil, readyHead |-> Nil, fullHead |-> Nil,
              ifSpoolChan |-> TRUE, nextSpool |-> NoSpool, onShutdown |-> TRUE]
    /\ eps = [ep \in Endpoints |-> InitEndpoint]
    /\ pays = <<>>
    /\ timer = [due |-> Stopped, C |-> FALSE]
    /\ now = 0
    /\ pc = "run"
    /\ out = EmptyOut
    /\ hist = [spools |-> 0, invalid |-> 0, created |-> 0, advanced |-> 0, lastAdd |-> 0,
               ticks |-> 0, teardown |-> <<>>]

Next ==
    \/ ReadyEvent
    \/ SpoolEvent
    \/ AckEvent
    \/ PongEvent
    \/ UnknownResponseEvent
    \/ FailEvent
    \/ TimeoutEvent
    \/ StatsEvent
    \/ ShutdownEvent
    \/ TimerFire
    \/ Tick

Spec == Init /\ [][Next]_vars

(* The dispatcher under load: many spools, no clock. *)
NextLoad ==
    \/ ReadyEventWith({FALSE})
    \/ SpoolEventWith(MaxSpoolsLoad, {MaxEvents}, {FALSE})
    \/ AckEventWith(Endpoints, {FALSE}, TRUE)
    \/ ShutdownEvent

SpecLoad == Init /\ [][NextLoad]_vars

(* Run to its return: the dispatcher under load, then the calls after the loop. *)
NextTeardown ==
    \/ ReadyEventWith({FALSE})
    \/ SpoolEventWith(MaxSpoolsLoad, {MaxEvents}, {FALSE})
    \/ AckEventWith(Endpoints, {FALSE}, TRUE)
    \/ ShutdownEvent
    \/ Teardown

SpecTeardown == Init /\ [][NextTeardown]_vars

(* The dispatcher saturated: enough spools to fill every endpoint, whole acks. *)
NextSaturate ==
    \/ ReadyEventWith({FALSE})
    \/ SpoolEventWith(MaxSpoolsSaturate, {MaxEvents}, {FALSE})
    \/ AckEventWith(Endpoints, {FALSE}, FALSE)

SpecSaturate == Init /\ [][NextSaturate]_vars

(* An endpoint drained and refilled: more spools than one endpoint takes,    *)
(* partial acks, and only the first endpoint's acks arriving.                *)
NextRefill ==
    \/ ReadyEventWith({FALSE})
    \/ SpoolEventWith(MaxSpoolsRefill, {MaxEvents}, {FALSE})
    \/ AckEventWith({1}, {FALSE}, TRUE)

SpecRefill == Init /\ [][NextRefill]_vars

(* The keepalive protocol: one spool, whole acks, a clock finer than the      *)
(* network timeout.                                                          *)
NextKeepalive ==
    \/ ReadyEventWith({FALSE})
    \/ SpoolEventWith(MaxSpools, {MaxEvents}, {FALSE})
    \/ AckEventWith(Endpoints, {FALSE}, FALSE)
    \/ PongEvent
    \/ TimeoutEvent
    \/ TimerFire
    \/ TickWith({TickStep, keepalive_timeout - TickStep}, MaxTicksKeepalive)

SpecKeepalive == Init /\ [][NextKeepalive]_vars

(* ------------------------- reading the lists -------------------------- *)
RECURSIVE Walk(_, _, _)
Walk(head, next, fuel) ==
    IF head = Nil \/ fuel = 0 THEN <<>>
    ELSE <<head>> \o Walk(next[head], next, fuel - 1)

Range(seq) == {seq[i] : i \in DOMAIN seq}

(* firstPayload .. lastPayload, following nextPayload *)
QueueOf(p, pay) == Walk(p.firstPayload, [i \in DOMAIN pay |-> pay[i].nextPayload], MaxSpoolsSaturate + 2)

Queue == QueueOf(pub, pays)

ReadyListOf(p, e) == Walk(p.readyHead, [ep \in Endpoints |-> e[ep].NextReady], NumEndpoints + 1)

ReadyList == ReadyListOf(pub, eps)

FullListOf(p, e) == Walk(p.fullHead, [ep \in Endpoints |-> e[ep].NextFull], NumEndpoints + 1)

FullList == FullListOf(pub, eps)

TimeoutListOf(p, e) ==
    Walk(p.timeoutHead, [ep \in Endpoints |-> e[ep].NextTimeout], NumEndpoints + 1)

TimeoutList == TimeoutListOf(pub, eps)

(* A step in which Run handles an event: the clock and the runtime's timer    *)
(* stand still.                                                              *)
EventStep == now' = now /\ (timer'.due = Stopped => timer.due = Stopped)

AddsOf(o) == SelectSeq(o.reg, LAMBDA c : c[1] = "Add")

AddIdsOf(o) == [i \in DOMAIN AddsOf(o) |-> AddsOf(o)[i][2]]

(* ------------------------------ claims -------------------------------- *)

(* C1: the registrar sees payloads in source order. In every step the Adds   *)
(* start at the payload that is firstPayload and follow nextPayload; every   *)
(* payload Added before the last one was complete and is advanced past in    *)
(* that step; no Add is for a payload older than the last one Added; no Add  *)
(* happens while an older payload is still in flight; and the payloads       *)
(* advanced past are counted once each, in order (ids are dispatch order).   *)
C1_RegistrarInSourceOrder ==
    [][LET ids == AddIdsOf(out')
           n == Len(ids)
           gone == (DOMAIN pays) \ (DOMAIN pays')
       IN  /\ n > 0 => ids[1] = pub.firstPayload
           /\ \A i \in 1..n : /\ ids[i] >= hist.lastAdd
                              /\ \A j \in DOMAIN pays : j < ids[i] => j \in gone
           /\ \A i \in 1..(n - 1) : /\ ids[i + 1] = pays[ids[i]].nextPayload
                                    /\ ids[i] < ids[i + 1]
                                    /\ ids[i] \in gone
           /\ gone \subseteq Range(ids)
           /\ hist'.advanced = hist.advanced + Cardinality(gone)
           /\ \A j \in gone : j = hist.advanced + Cardinality({k \in gone : k <= j})
           /\ hist'.lastAdd >= hist.lastAdd
      ]_vars

C1_Witness ==
    /\ Len(AddIdsOf(out)) >= 2
    /\ hist.advanced >= 2

(* C2: the global queue holds the payloads in the order their spools were    *)
(* read; a parked spool is the last spool read, later than all in the queue. *)
C2_QueueInSpoolOrder ==
    LET q == Queue
    IN  /\ \A i, j \in DOMAIN q : i < j => pays[q[i]].spool < pays[q[j]].spool
        /\ pub.nextSpool # NoSpool =>
              /\ pub.nextSpool.id = hist.spools
              /\ \A i \in DOMAIN q : pays[q[i]].spool < pub.nextSpool.id

C2_Witness ==
    /\ out.ev[1] \in {"ready", "ack"}
    /\ out.sent # <<>>
    /\ Len(Queue) >= 3

(* C3: outOfSync is the number of payloads after firstPayload that HasAck,   *)
(* is at most the number of payloads in flight and is 0 on an empty queue.   *)
C3_OutOfSyncCount ==
    LET q == Queue
    IN  /\ pub.outOfSync = Cardinality({i \in DOMAIN q : i > 1 /\ pays[q[i]].ackCount > 0})
        /\ pub.outOfSync <= Len(q)
        /\ q = <<>> => pub.outOfSync = 0

(* C4: numPayloads is the length of the global queue, 0 exactly when         *)
(* firstPayload is nil.                                                      *)
C4_NumPayloadsIsQueueLength ==
    /\ pub.numPayloads = Len(Queue)
    /\ pub.numPayloads = 0 <=> pub.firstPayload = Nil

C4_Witness ==
    /\ pub.numPayloads >= 2
    /\ hist.advanced >= 2
    /\ out.ev[1] = "ack"

(* C5: the loop is left only on the shutdown signal handled with numPayloads *)
(* 0, or on the ack that brings numPayloads to 0 while shuttingDown; the     *)
(* shutdown signal handled with payloads outstanding does not leave it.      *)
C5_ExitOnlyWhenShutdownAndDrained ==
    [][/\ pc' = "exited" =>
             /\ pub'.numPayloads = 0
             /\ pub'.shuttingDown \/ out'.ev[1] = "shutdown"
       /\ (pc = "run" /\ pc' = "exited") =>
             \/ out'.ev[1] = "shutdown" /\ pub.onShutdown /\ pub.numPayloads = 0
             \/ /\ out'.ev[1] = "ack"
                /\ pub.shuttingDown
                /\ pub.numPayloads > 0
                /\ pub'.numPayloads = 0
       /\ (pc = "run" /\ pub.onShutdown /\ out'.ev[1] = "shutdown") =>
             /\ pc' = "exited" <=> pub.numPayloads = 0
             /\ pub.numPayloads > 0 => pub'.shuttingDown /\ ~pub'.onShutdown
      ]_vars

C5_Witness ==
    /\ pc = "exited"
    /\ out.ev[1] = "ack"
    /\ pub.shuttingDown

(* C6: once shutdown is pending with payloads outstanding, the dispatcher    *)
(* goes on handling acks until the last one and then leaves the loop: while  *)
(* the shutdown is pending it is in the loop or has left it through the      *)
(* exit, never stopped inside it with the acks still to come.                *)
C6_ShutdownTerminates == pub.shuttingDown => pc \in {"run", "exited"}

(* C7: while shuttingDown the spool channel is not consumed.                 *)
C7_GateClosedWhileShuttingDown ==
    (pc = "run" /\ pub.shuttingDown) => ~pub.ifSpoolChan

(* C8: every send goes to an endpoint with fewer than FullThreshold pending, *)
(* no endpoint on the ready list is full, and no endpoint ever has more than *)
(* FullThreshold pending payloads.                                           *)
C8_NeverSendToFullEndpoint ==
    /\ \A i \in DOMAIN out.sent : out.sent[i][2] < FullThreshold
    /\ \A ep \in Range(ReadyList) : Len(eps[ep].pending) < FullThreshold
    /\ \A ep \in Endpoints : Len(eps[ep].pending) <= FullThreshold

C8_Witness ==
    \E ep \in Endpoints :
        /\ out.ev[1] = "ack"
        /\ out.ev[2] = ep
        /\ out.sent = <<<<ep, FullThreshold - 1, hist.created>>>>
        /\ Len(eps[ep].pending) = FullThreshold

NoDuplicates(seq) == \A i, j \in DOMAIN seq : i # j => seq[i] # seq[j]

(* C9: no endpoint is on both the ready list and the full list, and none is  *)
(* on either list twice.                                                     *)
C9_ReadyFullDisjoint ==
    /\ Range(ReadyList) \cap Range(FullList) = {}
    /\ NoDuplicates(ReadyList)
    /\ NoDuplicates(FullList)

(* C10: the ack that takes a Full endpoint from FullThreshold pending to one *)
(* less unlinks it from the full list and re-offers it in the same step: a   *)
(* parked spool is sent to it (nextSpool cleared, gate reopened), otherwise  *)
(* it goes on the ready list.                                                *)
C10_AckBelowThresholdReoffers ==
    [][\A ep \in Endpoints :
          (/\ pc = "run"
           /\ eps[ep].Full
           /\ Len(eps[ep].pending) = FullThreshold
           /\ out'.ev[1] = "ack"
           /\ out'.ev[2] = ep
           /\ out'.ev[3] = Head(eps[ep].pending)
           /\ out'.ev[3] \notin Range(eps'[ep].pending))
          => /\ ep \notin Range(FullListOf(pub', eps'))
             /\ IF pub.nextSpool # NoSpool
                THEN /\ pub'.nextSpool = NoSpool
                     /\ pub'.ifSpoolChan
                     /\ Len(out'.sent) = 1
                     /\ out'.sent[1][1] = ep
                ELSE ep \in Range(ReadyListOf(pub', eps'))
      ]_vars

(* C11: a parked spool means the spool gate is closed and the ready list is  *)
(* empty; a closed gate means a spool is parked or shutdown is in progress.  *)
C11_SpoolGate ==
    /\ pub.nextSpool # NoSpool => (~pub.ifSpoolChan /\ pub.readyHead = Nil)
    /\ ~pub.ifSpoolChan => (pub.nextSpool # NoSpool \/ pub.shuttingDown)

C11_Witness ==
    /\ pub.nextSpool # NoSpool
    /\ out.ev[1] = "ready"
    /\ pub.fullHead # Nil
    /\ ~pub.shuttingDown

(* C12: after every event, every endpoint with pending payloads has an armed *)
(* timeoutPending, and every idle endpoint (ready, nothing pending, not      *)
(* pinging) has an armed timeoutKeepalive.                                   *)
C12_TimeoutsArmed ==
    pc = "run" =>
        \A ep \in Endpoints :
            /\ Len(eps[ep].pending) > 0 =>
                  /\ eps[ep].TimeoutFunc = "timeoutPending"
                  /\ ep \in Range(TimeoutList)
            /\ (eps[ep].Ready /\ eps[ep].pending = <<>> /\ ~eps[ep].pinging) =>
                  /\ eps[ep].TimeoutFunc = "timeoutKeepalive"
                  /\ ep \in Range(TimeoutList)

(* C13: the keepalive protocol of an endpoint with nothing pending. When its *)
(* keepalive timeout fires a ping is sent (or the send error reported) and   *)
(* timeoutPending is armed at now + networkTimeout; a pong processed while   *)
(* it is pinging re-arms timeoutKeepalive and fails nothing; a pending       *)
(* timeout fails a pinging endpoint with ErrNetworkPing, and only once the   *)
(* deadline armed with the ping has passed, and an endpoint that is not      *)
(* pinging with ErrNetworkTimeout.                                           *)
C13_KeepaliveProtocol ==
    [][EventStep =>
       /\ \A i \in DOMAIN out'.fired :
             LET ep == out'.fired[i][1]
                 callback == out'.fired[i][2]
                 due == out'.fired[i][3]
             IN  /\ (callback = "timeoutKeepalive" /\ eps[ep].pending = <<>>) =>
                        /\ eps'[ep].TimeoutFunc = "timeoutPending"
                        /\ eps'[ep].TimeoutDue = now + NetworkTimeout
                        /\ ep \in Range(TimeoutListOf(pub', eps'))
                        /\ \/ ep \in Range(out'.ping) /\ eps'[ep].pinging
                           \/ <<ep, "ErrSend">> \in Range(out'.fail)
                 /\ callback = "timeoutPending" =>
                        /\ eps[ep].pinging => <<ep, "ErrNetworkPing">> \in Range(out'.fail)
                        /\ ~eps[ep].pinging => <<ep, "ErrNetworkTimeout">> \in Range(out'.fail)
                        /\ (eps[ep].pinging /\ eps[ep].pending = <<>>) => due <= now
       /\ \A ep \in Endpoints :
             (/\ out'.ev = <<"pong", ep>>
              /\ eps[ep].pinging
              /\ eps[ep].pending = <<>>)
             => /\ eps'[ep].TimeoutFunc = "timeoutKeepalive"
                /\ ep \in Range(TimeoutListOf(pub', eps'))
                /\ ~eps'[ep].pinging
                /\ out'.fail = <<>>
      ]_vars

(* C14: after every event an endpoint is reachable from timeoutHead exactly  *)
(* when its TimeoutFunc is set, and it is there at most once.                *)
C14_TimeoutListMembership ==
    /\ \A ep \in Endpoints :
          ep \in Range(TimeoutList) <=> eps[ep].TimeoutFunc # NoFunc
    /\ NoDuplicates(TimeoutList)

C14_Witness ==
    /\ out.ev[1] = "timer"
    /\ Len(out.fired) >= 2
    /\ \E i \in DOMAIN out.fired : out.fired[i][2] = "timeoutKeepalive"
    /\ Len(TimeoutList) = NumEndpoints
    /\ pc = "run"

(* C15: handling a zero-length spool, when it arrives or when it is sent     *)
(* from nextSpool, leaves the queue, numPayloads, outOfSync, every Ready     *)
(* flag, the ready list, the timeout list and every TimeoutFunc/TimeoutDue   *)
(* as they were.                                                             *)
C15_InvalidSpoolAltersNothing ==
    [][(\/ hist'.invalid > hist.invalid
        \/ /\ EventStep
           /\ pub.nextSpool # NoSpool
           /\ NewPendingPayloadFails(pub.nextSpool)
           /\ pub'.nextSpool = NoSpool)
       => /\ QueueOf(pub', pays') = Queue
          /\ pub'.numPayloads = pub.numPayloads
          /\ pub'.outOfSync = pub.outOfSync
          /\ ReadyListOf(pub', eps') = ReadyList
          /\ TimeoutListOf(pub', eps') = TimeoutList
          /\ \A ep \in Endpoints :
                /\ eps'[ep].Ready = eps[ep].Ready
                /\ eps'[ep].TimeoutFunc = eps[ep].TimeoutFunc
                /\ eps'[ep].TimeoutDue = eps[ep].TimeoutDue
      ]_vars

(* C16: after an event in which failEndpoint ran for an endpoint, that       *)
(* endpoint has no timeout (TimeoutFunc nil, not in the timeout list), is in *)
(* neither the ready list nor the full list, and its payloads are still in   *)
(* the global queue, in dispatch order.                                      *)
C16_FailedEndpointUnlinked ==
    \A i \in DOMAIN out.fail :
        LET ep == out.fail[i][1]
        IN  /\ eps[ep].TimeoutFunc = NoFunc
            /\ ep \notin Range(TimeoutList)
            /\ ep \notin Range(ReadyList)
            /\ ep \notin Range(FullList)
            /\ Range(eps[ep].pending) \subseteq Range(Queue)
            /\ \A j, k \in DOMAIN Queue : j < k => Queue[j] < Queue[k]

TeardownOrder == <<"Shutdown", "Wait", "Close", "Done">>

(* C17: once the loop is left the sink is shut down, then waited on, then    *)
(* the registrar spool is closed, then Done() is called, each once and in    *)
(* that order; until the last of them the next one is due; nothing is torn   *)
(* down while the loop runs; and no registrar Add or Send follows the Close. *)
C17_TeardownInOrder ==
    /\ [](/\ Len(hist.teardown) <= Len(TeardownOrder)
          /\ hist.teardown = SubSeq(TeardownOrder, 1, Len(hist.teardown))
          /\ hist.teardown # <<>> => pc = "exited"
          /\ (pc = "exited" /\ Len(hist.teardown) < Len(TeardownOrder)) => ENABLED Teardown)
    /\ [][/\ hist'.teardown # hist.teardown =>
                 hist'.teardown = Append(hist.teardown, TeardownOrder[Len(hist.teardown) + 1])
          /\ "Close" \in Range(hist.teardown) => out'.reg = <<>>
         ]_vars

C17_Witness ==
    /\ hist.teardown = TeardownOrder
    /\ hist.advanced > 0

(* C18: an ack for the payload that is firstPayload makes the registrar      *)
(* calls Add, ..., Add, Send: one Send, last. An ack for any other payload   *)
(* makes no registrar call and adds 1 to outOfSync if it is that payload's   *)
(* first ack and 0 otherwise.                                                *)
C18_RegistrarEmissionPerAck ==
    [][(pc = "run" /\ EventStep /\ out'.ev[1] = "ack") =>
          LET id == out'.ev[3]
              reg == out'.reg
          IN  IF id = pub.firstPayload
              THEN /\ reg # <<>>
                   /\ reg[Len(reg)] = <<"Send">>
                   /\ \A i \in 1..(Len(reg) - 1) : reg[i][1] = "Add"
              ELSE /\ reg = <<>>
                   /\ pub'.outOfSync =
                         pub.outOfSync + (IF pays[id].ackCount = 0 THEN 1 ELSE 0)
      ]_vars

C18_Witness ==
    /\ out.ev[1] = "ack"
    /\ Len(out.reg) >= 3
    /\ out.reg[Len(out.reg)] = <<"Send">>
    /\ pub.firstPayload # Nil

(* C19: an ack for the head payload that leaves it incomplete gives the      *)
(* registrar one rollup, for that payload and covering the events acked      *)
(* since the last one, and leaves firstPayload, numPayloads and outOfSync    *)
(* unchanged; a payload is unlinked from the queue and numPayloads           *)
(* decremented only by the ack that completes the head.                      *)
C19_PartialAckOfHead ==
    [][(pc = "run" /\ EventStep /\ out'.ev[1] = "ack") =>
          LET id == out'.ev[3]
              partial == id \in DOMAIN pays' /\ pays'[id].ackCount < pays'[id].events
          IN  /\ (id = pub.firstPayload /\ partial) =>
                    /\ AddsOf(out') = <<<<"Add", id, pays[id].rolled, pays'[id].ackCount>>>>
                    /\ pub'.firstPayload = pub.firstPayload
                    /\ pub'.numPayloads = pub.numPayloads
                    /\ pub'.outOfSync = pub.outOfSync
                    /\ QueueOf(pub', pays') = Queue
              /\ (id = pub.firstPayload /\ ~partial) =>
                    /\ pub'.firstPayload # id
                    /\ id \notin Range(QueueOf(pub', pays'))
                    /\ hist'.advanced > hist.advanced
              /\ (id # pub.firstPayload \/ partial) =>
                    /\ hist'.advanced = hist.advanced
                    /\ Range(Queue) \subseteq Range(QueueOf(pub', pays'))
      ]_vars

(* C20: a spool dispatched from the ready list goes to the least-loaded      *)
(* ready endpoint: the head has no more pending payloads than any other      *)
(* endpoint of the ready list at that moment.                                *)
C20_DispatchToLeastLoaded ==
    [][(pc = "run" /\ hist'.spools > hist.spools /\ pub.readyHead # Nil) =>
          /\ out'.sent # <<>> => out'.sent[1][1] = pub.readyHead
          /\ \A ep \in Range(ReadyList) :
                Len(eps[pub.readyHead].pending) <= Len(eps[ep].pending)
      ]_vars

(* C21: an endpoint's Full flag is set exactly when it is on the full list,  *)
(* and it is on the full list exactly when it has FullThreshold or more      *)
(* pending payloads; the PrevFull/NextFull links of the list agree.          *)
C21_FullFlagIsFullListIsThreshold ==
    /\ \A ep \in Endpoints :
          /\ eps[ep].Full <=> ep \in Range(FullList)
          /\ ep \in Range(FullList) <=> Len(eps[ep].pending) >= FullThreshold
    /\ NoDuplicates(FullList)
    /\ pub.fullHead # Nil => eps[pub.fullHead].PrevFull = Nil
    /\ \A ep \in Range(FullList) :
          eps[ep].NextFull # Nil => eps[eps[ep].NextFull].PrevFull = ep

(* C22: while some endpoint has a timeout armed, the timeout list is in      *)
(* ascending order of TimeoutDue, its head is due no later than any armed    *)
(* endpoint, and timeoutTimer is set for the head's TimeoutDue (or has       *)
(* already fired for it and its tick is waiting in the channel).             *)
C22_TimerSetForEarliestDue ==
    (pc # "panic" /\ \E ep \in Endpoints : eps[ep].TimeoutFunc # NoFunc) =>
        /\ pub.timeoutHead # Nil
        /\ \A i, j \in DOMAIN TimeoutList :
              i < j => eps[TimeoutList[i]].TimeoutDue <= eps[TimeoutList[j]].TimeoutDue
        /\ \A ep \in Endpoints :
              eps[ep].TimeoutFunc # NoFunc =>
                  eps[pub.timeoutHead].TimeoutDue <= eps[ep].TimeoutDue
        /\ \/ timer.due = eps[pub.timeoutHead].TimeoutDue
           \/ /\ timer.due = Stopped
              /\ timer.C
              /\ eps[pub.timeoutHead].TimeoutDue <= now

C22_Witness ==
    /\ pc = "run"
    /\ out.ev[1] = "timer"
    /\ \E i \in DOMAIN out.fired, other \in Endpoints :
          /\ out.fired[i][2] = "timeoutKeepalive"
          /\ other # out.fired[i][1]
          /\ TimeoutList = <<other, out.fired[i][1]>>
    /\ eps[TimeoutList[1]].TimeoutDue < eps[TimeoutList[2]].TimeoutDue
    /\ timer.due = eps[pub.timeoutHead].TimeoutDue

(* C23: when Run handles a tick of timeoutTimer the timeout list is not      *)
(* empty, and every TimeoutFunc it invokes belongs to the endpoint that is   *)
(* the head of the list at that moment, is set, and is due (TimeoutDue is    *)
(* not after now); the handling does not panic.                              *)
C23_TimerEventFiresDueHead ==
    [][(pc = "run" /\ timer.C /\ ~timer'.C) =>
          /\ pub.timeoutHead # Nil
          /\ pc' # "panic"
          /\ out'.fired # <<>>
          /\ out'.fired[1][1] = pub.timeoutHead
          /\ \A i \in DOMAIN out'.fired :
                /\ out'.fired[i][2] # NoFunc
                /\ out'.fired[i][3] <= now
      ]_vars

(* C24: whenever an event registers timeoutKeepalive for an endpoint, the    *)
(* due-time it sets is now + keepalive_timeout.                              *)
C24_KeepaliveDueAfterKeepaliveTimeout ==
    [][\A ep \in Endpoints :
          (/\ pc = "run"
           /\ eps'[ep].TimeoutFunc = "timeoutKeepalive"
           /\ \/ eps[ep].TimeoutFunc # "timeoutKeepalive"
              \/ eps[ep].TimeoutDue # eps'[ep].TimeoutDue)
          => eps'[ep].TimeoutDue = now + keepalive_timeout
      ]_vars

====
